---- MODULE Spec2Model ----
(***************************************************************************)
(* Model of mfiapp.py: the Streamlit script that loads a table of daily    *)
(* stock bars, computes the Money Flow Index of one selected stock         *)
(* (calculate_mfi), filters the result by a date range (tab 1) and ranks   *)
(* the latest trading day by volume (tab 2).                               *)
(*                                                                         *)
(* A DataFrame is [columns |-> set of column names, rows |-> sequence],    *)
(* each row a function from the column names and the index name "Date"     *)
(* to cell values.  Positions are 1-based here and 0-based in the code.    *)
(* Raw cells are integers (dates are day numbers); nan (-1) is a missing   *)
(* cell and junk (-2) a cell that parses neither as number nor date. Float *)
(* columns computed by calculate_mfi hold exact fractions <<n, d>>, with   *)
(* <<0, 0>> for NaN/NA and <<1, 0>>, <<-1, 0>> for the infinities.         *)
(***************************************************************************)
EXTENDS Integers, Sequences, FiniteSets, TLC

VARIABLES csv, df_full, pc, selected_stock, df_selected_stock, df,
          df_processed, date_range, df_filtered_date, top_25_stocks, tab2

vars == <<csv, df_full, pc, selected_stock, df_selected_stock, df,
          df_processed, date_range, df_filtered_date, top_25_stocks, tab2>>

\* ---------------------------------------------------------------- bounds
\* longest single-stock history of the generated inputs
MaxLen == 15
\* most rows of the generated ranking inputs
MaxRank == 27
\* most rows of the generated small mixed inputs
MaxSmall == 3

\* ---------------------------------------------------- program constants
\* calculate_mfi(df, period=14)
period == 14
\* .head(25)
head_n == 25

\* ------------------------------------------------------------ float cells
RECURSIVE GCD(_, _)
GCD(a, b) == IF b = 0 THEN a ELSE GCD(b, a % b)

Abs(x) == IF x < 0 THEN 0 - x ELSE x

Sign(x) == IF x > 0 THEN 1 ELSE IF x < 0 THEN 0 - 1 ELSE 0

\* the float n/d, in lowest terms; n/0 is an infinity or NaN
Float(n, d) ==
    IF d = 0 THEN <<Sign(n), 0>>
    ELSE LET g == GCD(Abs(n), Abs(d))
         IN  <<(Sign(d) * n) \div g, Abs(d) \div g>>

NA == <<0, 0>>

isna(x) == x = NA

nan == 0 - 1

FInt(k) == IF k = nan THEN NA ELSE <<k, 1>>

FAdd(x, y) ==
    IF isna(x) \/ isna(y) THEN NA
    ELSE IF x[2] = 0 /\ y[2] = 0 THEN (IF x[1] = y[1] THEN x ELSE NA)
    ELSE IF x[2] = 0 THEN x
    ELSE IF y[2] = 0 THEN y
    ELSE Float(x[1] * y[2] + y[1] * x[2], x[2] * y[2])

FNeg(x) == <<0 - x[1], x[2]>>

FSub(x, y) == FAdd(x, FNeg(y))

FMul(x, y) ==
    IF isna(x) \/ isna(y) THEN NA
    ELSE Float(x[1] * y[1], x[2] * y[2])

FDiv(x, y) ==
    IF isna(x) \/ isna(y) THEN NA
    ELSE IF y[2] = 0 THEN (IF x[2] = 0 THEN NA ELSE <<0, 1>>)
    ELSE IF y[1] = 0 THEN Float(x[1], 0)
    ELSE Float(Sign(y[1]) * x[1] * y[2], x[2] * Abs(y[1]))

\* x < y and x > y on floats; a comparison with NaN is false
FLt(x, y) ==
    /\ ~isna(x)
    /\ ~isna(y)
    /\ x # y
    /\ IF x[2] = 0 THEN x[1] < 0
       ELSE IF y[2] = 0 THEN y[1] > 0
       ELSE x[1] * y[2] < y[1] * x[2]

FGt(x, y) == FLt(y, x)

\* ------------------------------------------------------------ DataFrames
EmptyDataFrame == [columns |-> {}, rows |-> <<>>]

empty(d) == d.columns = {} \/ Len(d.rows) = 0

\* d[name] = col : adds the column or overwrites it, in place
SetColumn(d, name, col) ==
    [columns |-> d.columns \cup {name},
     rows |-> [i \in 1..Len(d.rows) |->
                 [c \in (DOMAIN d.rows[i]) \cup {name} |->
                    IF c = name THEN col[i] ELSE d.rows[i][c]]]]

Column(d, name) == [i \in 1..Len(d.rows) |-> d.rows[i][name]]

\* the frame d with the rows rs (a row selection of d)
WithRows(d, rs) == [columns |-> d.columns, rows |-> rs]

\* ---------------------------------------------------------- calculate_mfi
required_ohlcv == {"Open Price", "High", "Low", "Close", "Volume"}

Typical_Price(r) ==
    FDiv(FAdd(FAdd(FInt(r["High"]), FInt(r["Low"])), FInt(r["Close"])), FInt(3))

Raw_Money_Flow(r) == FMul(r["Typical_Price"], FInt(r["Volume"]))

\* FlowStep with >= for >: an unchanged typical price counted as positive
FlowStep_counting_equal(d, i) ==
    LET tp   == d.rows[i]["Typical_Price"]
        prev == d.rows[i - 1]["Typical_Price"]
        raw  == d.rows[i]["Raw_Money_Flow"]
    IN  IF ~FLt(tp, prev)
        THEN [d EXCEPT !.rows[i]["Positive_MF"] = raw]
        ELSE [d EXCEPT !.rows[i]["Negative_MF"] = raw]

\* one pass of the loop body at position i (i-1 in the code's numbering)
FlowStep(d, i) ==
    LET tp   == d.rows[i]["Typical_Price"]
        prev == d.rows[i - 1]["Typical_Price"]
        raw  == d.rows[i]["Raw_Money_Flow"]
    IN  IF FGt(tp, prev)
        THEN [d EXCEPT !.rows[i]["Positive_MF"] = raw]
        ELSE IF FLt(tp, prev)
        THEN [d EXCEPT !.rows[i]["Negative_MF"] = raw]
        ELSE d

\* for i in range(1, len(df)), from position i on
RECURSIVE FlowLoop(_, _)
FlowLoop(d, i) ==
    IF i > Len(d.rows) THEN d ELSE FlowLoop(FlowStep(d, i), i + 1)

RECURSIVE SumRange(_, _, _)
SumRange(col, lo, hi) ==
    IF lo > hi THEN FInt(0) ELSE FAdd(SumRange(col, lo, hi - 1), col[hi])

\* rolling_sum with min_periods=1: a sum over the bars there are
rolling_sum_min_periods_1(col, w) ==
    [i \in DOMAIN col |-> SumRange(col, IF i < w THEN 1 ELSE i - w + 1, i)]

\* col.rolling(window=w).sum(): NaN until w values are in the window
rolling_sum(col, w) ==
    [i \in DOMAIN col |-> IF i < w THEN NA ELSE SumRange(col, i - w + 1, i)]

\* s.replace(0, pd.NA)
replace_zero(x) == IF x = FInt(0) THEN NA ELSE x

\* Money_Flow_Ratio without the replace(0, pd.NA)
Money_Flow_Ratio_unreplaced(pos, neg) == FDiv(pos, neg)

Money_Flow_Ratio(pos, neg) == FDiv(pos, replace_zero(neg))

\* MFI without the 1 + in the denominator
MFI_without_one(ratio) == FSub(FInt(100), FDiv(FInt(100), ratio))

MFI(ratio) == FSub(FInt(100), FDiv(FInt(100), FAdd(FInt(1), ratio)))

\* dropna that keeps every row
dropna_keeping_all(d, name) == d

\* df.dropna(subset=[name]): a new frame without the rows missing name
dropna(d, name) == WithRows(d, SelectSeq(d.rows, LAMBDA r : ~isna(r[name])))

\* the body after the column check: the argument as the call leaves it
mfi_columns(d, p) ==
    LET d1 == SetColumn(d, "Typical_Price",
                        [i \in 1..Len(d.rows) |-> Typical_Price(d.rows[i])])
        d2 == SetColumn(d1, "Raw_Money_Flow",
                        [i \in 1..Len(d.rows) |-> Raw_Money_Flow(d1.rows[i])])
        d3 == SetColumn(d2, "Positive_MF", [i \in 1..Len(d.rows) |-> FInt(0)])
        d4 == SetColumn(d3, "Negative_MF", [i \in 1..Len(d.rows) |-> FInt(0)])
        d5 == FlowLoop(d4, 2)
        d6 == SetColumn(d5, "Positive_MF_Sum",
                        rolling_sum(Column(d5, "Positive_MF"), p))
        d7 == SetColumn(d6, "Negative_MF_Sum",
                        rolling_sum(Column(d6, "Negative_MF"), p))
        d8 == SetColumn(d7, "Money_Flow_Ratio",
                        [i \in 1..Len(d.rows) |->
                           Money_Flow_Ratio(d7.rows[i]["Positive_MF_Sum"],
                                            d7.rows[i]["Negative_MF_Sum"])])
    IN  SetColumn(d8, "MFI",
                  [i \in 1..Len(d.rows) |-> MFI(d8.rows[i]["Money_Flow_Ratio"])])

\* [df |-> the argument after the call, ret |-> the returned frame]
calculate_mfi(d, p) ==
    IF ~(required_ohlcv \subseteq d.columns)
    THEN [df |-> d, ret |-> EmptyDataFrame]
    ELSE LET m == mfi_columns(d, p)
         IN  [df |-> m, ret |-> dropna(m, "MFI")]

\* ------------------------------------------------------ load_data_from_gcs
junk == 0 - 2

numeric_cols_to_convert ==
    {"Open Price", "High", "Low", "Close", "Volume",
     "Foreign Buy", "Foreign Sell", "Frequency"}

required_ohlcv_for_mfi == {"Open Price", "High", "Low", "Close", "Volume"}

\* "" stands for None
date_column_name_in_csv(c) ==
    IF "Date" \in c.columns THEN "Date"
    ELSE IF "Last Trading Date" \in c.columns THEN "Last Trading Date"
    ELSE ""

\* pd.to_datetime(errors='coerce') and pd.to_numeric(errors='coerce') on a cell
coerce(v) == IF v = junk THEN nan ELSE v

\* the date column coerced, renamed to Date and made the index; numeric
\* columns coerced
load_row(r, dc) ==
    [k \in ((DOMAIN r) \ {dc}) \cup {"Date"} |->
        IF k = "Date" THEN coerce(r[dc])
        ELSE IF k \in numeric_cols_to_convert THEN coerce(r[k])
        ELSE r[k]]

load_data_from_gcs(c) ==
    LET dc == date_column_name_in_csv(c)
    IN  IF dc = "" THEN EmptyDataFrame
        ELSE LET cols   == c.columns \ {dc}
                 dated  == SelectSeq(c.rows, LAMBDA r : coerce(r[dc]) # nan)
                 loaded == [i \in 1..Len(dated) |-> load_row(dated[i], dc)]
                 need   == required_ohlcv_for_mfi \cap cols
             IN  [columns |-> cols,
                  rows |-> SelectSeq(loaded,
                                     LAMBDA r : \A k \in need : r[k] # nan)]

\* ------------------------------------------------------------------ tab 1
stock_codes(d) == {d.rows[i]["Stock Code"] : i \in 1..Len(d.rows)}

\* df_full[df_full['Stock Code'] == s].copy(): the rows in the frame's order
select_stock(d, s) == WithRows(d, SelectSeq(d.rows, LAMBDA r : r["Stock Code"] = s))

Dates(d) == {d.rows[i]["Date"] : i \in 1..Len(d.rows)}

SetMin(S) == CHOOSE x \in S : \A y \in S : x <= y

SetMax(S) == CHOOSE x \in S : \A y \in S : y <= x

\* what st.date_input can return between min_value and max_value: a
\* complete range, only its start while the user is still picking, or
\* nothing
date_inputs(lo, hi) ==
    {dr \in (lo..hi) \X (lo..hi) : dr[1] <= dr[2]}
        \cup {<<s>> : s \in lo..hi} \cup {<<>>}

\* date_filter with the end date excluded
date_filter_exclusive(d, dr) ==
    IF Len(dr) = 2
    THEN WithRows(d, SelectSeq(d.rows,
                               LAMBDA r : r["Date"] >= dr[1] /\ r["Date"] < dr[2]))
    ELSE d

date_filter(d, dr) ==
    IF Len(dr) = 2
    THEN WithRows(d, SelectSeq(d.rows,
                               LAMBDA r : r["Date"] >= dr[1] /\ r["Date"] <= dr[2]))
    ELSE d

\* ------------------------------------------------------------------ tab 2
required_top_pick_cols ==
    {"Stock Code", "Volume", "Foreign Buy", "Foreign Sell", "Close"}

shown_cols == {"Stock Code", "Close", "Volume", "Net_Foreign_Flow", "Frequency"}

\* latest_day without the filter on the latest date
latest_day_all_dates(d) == d

latest_day(d) ==
    LET latest_date == SetMax(Dates(d))
    IN  WithRows(d, SelectSeq(d.rows, LAMBDA r : r["Date"] = latest_date))

Net_Foreign_Flow(r) ==
    IF r["Foreign Buy"] = nan \/ r["Foreign Sell"] = nan THEN nan
    ELSE r["Foreign Buy"] - r["Foreign Sell"]

with_net_flow(d) ==
    SetColumn(d, "Net_Foreign_Flow",
              [i \in 1..Len(d.rows) |-> Net_Foreign_Flow(d.rows[i])])

\* sort_values(by='Volume', ascending=False) with the default kind
\* 'quicksort', which is not stable: every order of the rows at the
\* positions S with volumes descending
RECURSIVE sort_orders(_, _)
sort_orders(rows, S) ==
    IF S = {} THEN {<<>>}
    ELSE LET top == {i \in S : \A j \in S : rows[j]["Volume"] <= rows[i]["Volume"]}
         IN  UNION {{<<rows[i]>> \o t : t \in sort_orders(rows, S \ {i})} : i \in top}

sort_values(d) ==
    {[columns |-> d.columns, rows |-> o] : o \in sort_orders(d.rows, 1..Len(d.rows))}

head(d, n) ==
    [columns |-> d.columns,
     rows |-> IF Len(d.rows) <= n THEN d.rows ELSE SubSeq(d.rows, 1, n)]

\* d[[...]]: the listed columns, with the index
project(d, cols) ==
    [columns |-> cols,
     rows |-> [i \in 1..Len(d.rows) |->
                 [c \in cols \cup {"Date"} |-> d.rows[i][c]]]]

\* ----------------------------------------------------------------- inputs
all_columns ==
    {"Date", "Stock Code", "Open Price", "High", "Low", "Close", "Volume",
     "Foreign Buy", "Foreign Sell", "Frequency"}

\* one CSV line: a bar with high one above its low, open and close
Bar(cols, stock, date, price, volume, buy, sell, freq) ==
    [c \in cols |->
        CASE c = "Stock Code"   -> stock
          [] c = "Open Price"   -> price
          [] c = "High"         -> price + 1
          [] c = "Low"          -> price
          [] c = "Close"        -> price
          [] c = "Volume"       -> volume
          [] c = "Foreign Buy"  -> buy
          [] c = "Foreign Sell" -> sell
          [] c = "Frequency"    -> freq
          [] OTHER              -> date]

\* (a) one stock's history of n bars in date order: a shape of price
\* moves, with the move d at position p instead, and a volume pattern
Shapes == {"up", "down", "flat", "zigzag"}

VolumePatterns == {"const", "ramp", "dry"}

Move(shape, p, d, i) ==
    IF i = p THEN d
    ELSE CASE shape = "up"   -> 1
           [] shape = "down" -> 0 - 1
           [] shape = "flat" -> 0
           [] OTHER          -> IF i % 2 = 0 THEN 2 ELSE 0 - 1

RECURSIVE Price(_, _, _, _)
Price(shape, p, d, i) ==
    IF i = 1 THEN MaxLen + 2
    ELSE Price(shape, p, d, i - 1) + Move(shape, p, d, i)

HistoryVolume(vp, p, i) ==
    CASE vp = "const" -> 2
      [] vp = "ramp"  -> i
      [] OTHER        -> IF i = p THEN 0 ELSE 3

HistoryCsv(n, shape, p, d, vp) ==
    [columns |-> all_columns,
     rows |-> [i \in 1..n |->
                 Bar(all_columns, 1, i, Price(shape, p, d, i),
                     HistoryVolume(vp, p, i), i, 1, i)]]

HistoryInputs ==
    {HistoryCsv(n, shape, p, d, vp) :
        n \in 1..MaxLen, shape \in Shapes, p \in 1..MaxLen,
        d \in {0 - 1, 0, 1}, vp \in VolumePatterns}

\* (b) a few lines of two stocks in any order, some with a date or a
\* volume that does not parse
SmallBars ==
    {Bar(all_columns, s, dt, s + 2, v, v + 1, s, 1) :
        s \in {1, 2}, dt \in {1, 2}, v \in {1, 2}}
    \cup {Bar(all_columns, 1, junk, 3, 1, 2, 1, 1),
          Bar(all_columns, 1, 1, 3, junk, 2, 1, 1)}

SmallInputs ==
    UNION {{[columns |-> all_columns, rows |-> rs] : rs \in [1..n -> SmallBars]} :
              n \in 1..MaxSmall}

\* (c) every choice of the columns tab 2 shows, and of the date column
optional_columns ==
    {"Stock Code", "Close", "Volume", "Foreign Buy", "Foreign Sell", "Frequency"}

SchemaCsv(cols) ==
    [columns |-> cols,
     rows |-> [i \in 1..2 |-> Bar(cols, i, 1, 4, i, 3, i, 5)]]

SchemaInputs ==
    {SchemaCsv({"Date", "Open Price", "High", "Low"} \cup S) :
        S \in SUBSET optional_columns}
    \cup {SchemaCsv((all_columns \ {"Date"}) \cup {"Last Trading Date"}),
          SchemaCsv(all_columns \ {"Date"}),
          SchemaCsv({"Date"})}

\* (d) n stocks on the latest day (the last one a day behind when old),
\* volumes ascending, descending, or ascending with two or three equal
RankPatterns == {"asc", "desc", "tie1", "tie2", "tielast", "triple"}

RankVolume(n, vp, i) ==
    CASE vp = "asc"     -> i
      [] vp = "desc"    -> n + 1 - i
      [] vp = "tie1"    -> IF i = 2 THEN 1 ELSE i
      [] vp = "tie2"    -> IF i = 3 THEN 2 ELSE i
      [] vp = "tielast" -> IF i = n /\ n > 1 THEN n - 1 ELSE i
      [] OTHER          -> IF i <= 3 THEN 1 ELSE i

RankCsv(n, vp, old) ==
    [columns |-> all_columns,
     rows |-> [i \in 1..n |->
                 Bar(all_columns, i, IF old /\ i = n THEN 1 ELSE 2, 5,
                     RankVolume(n, vp, i), 2 * i, i + 3, i)]]

RankInputs ==
    {RankCsv(n, vp, old) : n \in 1..MaxRank, vp \in RankPatterns, old \in BOOLEAN}

Inputs == HistoryInputs \cup SmallInputs \cup SchemaInputs \cup RankInputs

\* ---------------------------------------------------------------- actions
NoTab2 == [outcome |-> "none", table |-> EmptyDataFrame]

Init ==
    /\ csv \in Inputs
    /\ df_full = EmptyDataFrame
    /\ pc = "load"
    /\ selected_stock = 0
    /\ df_selected_stock = EmptyDataFrame
    /\ df = EmptyDataFrame
    /\ df_processed = EmptyDataFrame
    /\ date_range = <<>>
    /\ df_filtered_date = EmptyDataFrame
    /\ top_25_stocks = EmptyDataFrame
    /\ tab2 = NoTab2

\* df_full = load_data_from_gcs(GCS_PATH); st.stop() if it is empty
Load ==
    /\ pc = "load"
    /\ df_full' = load_data_from_gcs(csv)
    /\ pc' = IF empty(df_full') THEN "stopped" ELSE "tab1_select"
    /\ UNCHANGED <<csv, selected_stock, df_selected_stock, df, df_processed,
                   date_range, df_filtered_date, top_25_stocks, tab2>>

\* the stock selectbox; selected_stock 0 stands for "Data Tunggal"
SelectStock ==
    /\ pc = "tab1_select"
    /\ IF "Stock Code" \in df_full.columns
       THEN \E s \in stock_codes(df_full) :
               /\ selected_stock' = s
               /\ df_selected_stock' = select_stock(df_full, s)
       ELSE /\ selected_stock' = 0
            /\ df_selected_stock' = df_full
    /\ pc' = "tab1_mfi"
    /\ UNCHANGED <<csv, df_full, df, df_processed, date_range,
                   df_filtered_date, top_25_stocks, tab2>>

\* df_processed = calculate_mfi(df_selected_stock.copy()); df is the copy
ComputeMFI ==
    /\ pc = "tab1_mfi"
    /\ LET call == calculate_mfi(df_selected_stock, period)
       IN  IF ~empty(df_selected_stock)
           THEN df' = call.df /\ df_processed' = call.ret
           ELSE df' = df /\ df_processed' = EmptyDataFrame
    /\ pc' = IF empty(df_processed') THEN "tab2" ELSE "tab1_date"
    /\ UNCHANGED <<csv, df_full, selected_stock, df_selected_stock, date_range,
                   df_filtered_date, top_25_stocks, tab2>>

\* the date_input between the processed frame's first and last date, and
\* the filter of the processed frame by it
DateFilter ==
    /\ pc = "tab1_date"
    /\ LET min_date_data == SetMin(Dates(df_processed))
           max_date_data == SetMax(Dates(df_processed))
       IN  \E dr \in date_inputs(min_date_data, max_date_data) :
              /\ date_range' = dr
              /\ df_filtered_date' = date_filter(df_processed, dr)
    /\ pc' = "tab2"
    /\ UNCHANGED <<csv, df_full, selected_stock, df_selected_stock, df,
                   df_processed, top_25_stocks, tab2>>

\* tab 2: the latest day's rows by volume, the first 25 shown with five
\* columns; a warning when a checked column is absent
TopPicks ==
    /\ pc = "tab2"
    /\ IF required_top_pick_cols \subseteq df_full.columns /\ ~empty(df_full)
       THEN \E sorted \in sort_values(with_net_flow(latest_day(df_full))) :
               /\ top_25_stocks' = head(sorted, head_n)
               /\ IF shown_cols \subseteq top_25_stocks'.columns
                  THEN /\ tab2' = [outcome |-> "table",
                                   table |-> project(top_25_stocks', shown_cols)]
                       /\ pc' = "done"
                  ELSE /\ tab2' = [outcome |-> "KeyError", table |-> EmptyDataFrame]
                       /\ pc' = "crashed"
       ELSE /\ top_25_stocks' = top_25_stocks
            /\ tab2' = [outcome |-> "warning", table |-> EmptyDataFrame]
            /\ pc' = "done"
    /\ UNCHANGED <<csv, df_full, selected_stock, df_selected_stock, df,
                   df_processed, date_range, df_filtered_date>>

\* a widget interaction reruns the script; the loaded data is cached
Rerun ==
    /\ pc \in {"done", "crashed"}
    /\ pc' = "tab1_select"
    /\ selected_stock' = 0
    /\ df_selected_stock' = EmptyDataFrame
    /\ df' = EmptyDataFrame
    /\ df_processed' = EmptyDataFrame
    /\ date_range' = <<>>
    /\ df_filtered_date' = EmptyDataFrame
    /\ top_25_stocks' = EmptyDataFrame
    /\ tab2' = NoTab2
    /\ UNCHANGED <<csv, df_full>>

Next == Load \/ SelectStock \/ ComputeMFI \/ DateFilter \/ TopPicks \/ Rerun

Spec == Init /\ [][Next]_vars

\* ------------------------------------------------- the claims' vocabulary
\* calculate_mfi has been called in this run of the script
MfiCalled == pc \in {"tab1_date", "tab2", "done", "crashed"}

\* ... and got past its column check; df_selected_stock is then the series
\* it was handed and df the same rows with the computed columns
MfiComputed == MfiCalled /\ required_ohlcv \subseteq df_selected_stock.columns

series == df_selected_stock.rows

\* three times the typical price and the raw money flow of a bar
TP3(r) == r["High"] + r["Low"] + r["Close"]

Flow3(r) == TP3(r) * r["Volume"]

Window(t) == (t - period + 1)..t

FullWindows == period..Len(series)

Rising(j) == j >= 2 /\ TP3(series[j]) > TP3(series[j - 1])

Falling(j) == j >= 2 /\ TP3(series[j]) < TP3(series[j - 1])

RECURSIVE SumFlow3(_)
SumFlow3(S) ==
    IF S = {} THEN 0
    ELSE LET j == CHOOSE k \in S : TRUE
         IN  Flow3(series[j]) + SumFlow3(S \ {j})

positiveSum3(t) == SumFlow3({j \in Window(t) : Rising(j)})

negativeSum3(t) == SumFlow3({j \in Window(t) : Falling(j)})

\* the input columns of a computed row
InputPart(r) == [c \in df_selected_stock.columns \cup {"Date"} |-> r[c]]

IsNumber(x) == x[2] > 0

\* C9: for every row with a full trailing window of period bars, the
\* Positive_MF_Sum is the sum of the raw money flow of the window's bars
\* whose typical price is above the previous bar's, the Negative_MF_Sum
\* that of the bars whose typical price is below it; equal bars and the
\* first bar of the series add to neither.
C9_FlowSums ==
    MfiComputed =>
        \A t \in FullWindows :
            /\ df.rows[t]["Positive_MF_Sum"] = Float(positiveSum3(t), 3)
            /\ df.rows[t]["Negative_MF_Sum"] = Float(negativeSum3(t), 3)

C9_Witness ==
    /\ MfiComputed
    /\ \E t \in FullWindows :
          /\ 1 \in Window(t)
          /\ \E j \in Window(t) :
                j >= 2 /\ ~Rising(j) /\ ~Falling(j) /\ Flow3(series[j]) > 0
          /\ positiveSum3(t) > 0
          /\ negativeSum3(t) > 0

\* C1: a row whose window has negativeSum = 0 gets a missing MFI, never
\* 100 or another number, and no returned row is that row.
C1_ZeroNegativeMissing ==
    MfiComputed =>
        \A t \in FullWindows :
            negativeSum3(t) = 0 =>
                /\ isna(df.rows[t]["MFI"])
                /\ \A k \in 1..Len(df_processed.rows) :
                      df_processed.rows[k] # df.rows[t]

C1_Witness ==
    /\ MfiComputed
    /\ \E t \in FullWindows :
          /\ \A j \in Window(t) : j >= 2 => Rising(j)
          /\ positiveSum3(t) > 0
          /\ negativeSum3(t) = 0

\* C7: every MFI that is a number lies in [0, 100] and is
\* 100 * positiveSum / (positiveSum + negativeSum) with negativeSum > 0.
C7_MfiBounded ==
    MfiComputed =>
        /\ \A t \in 1..Len(series) :
              ~isna(df.rows[t]["MFI"]) =>
                  /\ t \in FullWindows
                  /\ negativeSum3(t) > 0
                  /\ df.rows[t]["MFI"] =
                        Float(100 * positiveSum3(t), positiveSum3(t) + negativeSum3(t))
                  /\ IsNumber(df.rows[t]["MFI"])
                  /\ ~FLt(df.rows[t]["MFI"], FInt(0))
                  /\ ~FGt(df.rows[t]["MFI"], FInt(100))
        /\ \A k \in 1..Len(df_processed.rows) :
              /\ IsNumber(df_processed.rows[k]["MFI"])
              /\ ~FLt(df_processed.rows[k]["MFI"], FInt(0))
              /\ ~FGt(df_processed.rows[k]["MFI"], FInt(100))

C7_Witness ==
    /\ MfiComputed
    /\ \E k \in 1..Len(df_processed.rows) :
          /\ FGt(df_processed.rows[k]["MFI"], FInt(0))
          /\ FLt(df_processed.rows[k]["MFI"], FInt(100))
    /\ \E k \in 1..Len(df_processed.rows) : df_processed.rows[k]["MFI"] = FInt(0)

\* the rows of rs at the positions from t on that are in S, in order
RECURSIVE RowsAt(_, _, _)
RowsAt(rs, t, S) ==
    IF t > Len(rs) THEN <<>>
    ELSE (IF t \in S THEN <<rs[t]>> ELSE <<>>) \o RowsAt(rs, t + 1, S)

HasMfi(t) == t \in FullWindows /\ negativeSum3(t) > 0

returned == [k \in 1..Len(df_processed.rows) |-> InputPart(df_processed.rows[k])]

\* C2 as claimed: the output has one row per input row, in the same
\* order, rows without an MFI included.
C2_AsClaimed == MfiComputed => returned = series

\* C2 as amended: the output holds exactly the input rows whose MFI is a
\* number, in the input's order; the first period-1 rows and the rows
\* whose ratio is undefined are removed.
C2_Amended ==
    MfiComputed => returned = RowsAt(series, 1, {t \in 1..Len(series) : HasMfi(t)})

C2_Witness ==
    /\ MfiComputed
    /\ Len(df_processed.rows) >= 1
    /\ \E t \in FullWindows : ~HasMfi(t)
    /\ \E t \in FullWindows : HasMfi(t)

\* C3 as claimed: a series of fewer than 20 rows gets no numeric MFI.
C3_AsClaimed ==
    (MfiComputed /\ Len(series) < 20) =>
        /\ df_processed.rows = <<>>
        /\ \A t \in 1..Len(series) : isna(df.rows[t]["MFI"])

\* C3 as amended: a series of fewer rows than the MFI window (period, 14)
\* gets no numeric MFI: every row's MFI is missing and no row is returned.
C3_Amended ==
    (MfiComputed /\ Len(series) < period) =>
        /\ df_processed.rows = <<>>
        /\ \A t \in 1..Len(series) : isna(df.rows[t]["MFI"])

C3_Witness ==
    /\ MfiComputed
    /\ Len(series) = period - 1
    /\ \E j \in 1..Len(series) : Falling(j) /\ Flow3(series[j]) > 0

\* C8: a second call on the same table returns what the first returned,
\* and the table handed to calculate_mfi is after the call what it was
\* before it (df_selected_stock, of which it is a copy).
C8_AsClaimed ==
    (MfiCalled /\ ~empty(df_selected_stock)) =>
        /\ calculate_mfi(df, period).ret = df_processed
        /\ df = df_selected_stock

\* C4: the series handed to calculate_mfi is in ascending date order.
C4_AsClaimed ==
    pc \in {"tab1_mfi", "tab1_date", "tab2", "done", "crashed"} =>
        \A i \in 1..Len(series) : \A j \in 1..Len(series) :
            i < j => series[i]["Date"] <= series[j]["Date"]

\* C6: tab 2 ends with the table of all five columns or with the warning,
\* never with an error on a column it reads.
C6_AsClaimed ==
    /\ tab2.outcome \in {"none", "table", "warning"}
    /\ tab2.outcome = "table" => tab2.table.columns = shown_cols

\* the dataset's rows on its latest date, as tab 2 shows a row
LatestDate == SetMax({df_full.rows[i]["Date"] : i \in 1..Len(df_full.rows)})

Shown(r) ==
    [c \in shown_cols \cup {"Date"} |->
        IF c = "Net_Foreign_Flow" THEN r["Foreign Buy"] - r["Foreign Sell"]
        ELSE r[c]]

LatestRows ==
    LET at == RowsAt(df_full.rows, 1,
                     {i \in 1..Len(df_full.rows) : df_full.rows[i]["Date"] = LatestDate})
    IN  [i \in 1..Len(at) |-> Shown(at[i])]

\* rs by volume descending, rows of equal volume in their order in rs
RECURSIVE StableDescending(_, _)
StableDescending(rs, S) ==
    IF S = {} THEN <<>>
    ELSE LET i == CHOOSE k \in S :
                    \A j \in S : \/ rs[j]["Volume"] < rs[k]["Volume"]
                                 \/ rs[j]["Volume"] = rs[k]["Volume"] /\ k <= j
         IN  <<rs[i]>> \o StableDescending(rs, S \ {i})

Min(a, b) == IF a <= b THEN a ELSE b

Count(rs, r) == Cardinality({i \in 1..Len(rs) : rs[i] = r})

\* C5 as claimed: the table is the first min(25, n) of the latest day's n
\* rows by volume descending, equal volumes in dataset order, each with
\* netForeignFlow = foreignBuy - foreignSell.
C5_AsClaimed ==
    tab2.outcome = "table" =>
        tab2.table.rows =
            SubSeq(StableDescending(LatestRows, 1..Len(LatestRows)),
                   1, Min(head_n, Len(LatestRows)))

\* C5 as amended: the table holds min(25, n) of the latest day's n rows,
\* volumes descending, no omitted row with a volume above the last shown
\* one, each with netForeignFlow = foreignBuy - foreignSell; the order of
\* rows of equal volume is not determined.
C5_Amended ==
    tab2.outcome = "table" =>
        LET out    == tab2.table.rows
            latest == LatestRows
        IN  /\ Len(out) = Min(head_n, Len(latest))
            /\ \A k \in 1..(Len(out) - 1) : out[k]["Volume"] >= out[k + 1]["Volume"]
            /\ \A k \in 1..Len(out) : Count(latest, out[k]) >= Count(out, out[k])
            /\ \A i \in 1..Len(latest) :
                  latest[i]["Volume"] > out[Len(out)]["Volume"] =>
                      Count(out, latest[i]) = Count(latest, latest[i])

C5_Witness ==
    /\ tab2.outcome = "table"
    /\ Len(LatestRows) > head_n
    /\ Len(LatestRows) < Len(df_full.rows)
    /\ Len(tab2.table.rows) = head_n
    /\ \E k \in 1..Len(tab2.table.rows) : tab2.table.rows[k]["Net_Foreign_Flow"] < 0
    /\ tab2.table.rows #
          SubSeq(StableDescending(LatestRows, 1..Len(LatestRows)), 1, head_n)

\* C10 as claimed: the series calculate_mfi evaluates holds only rows
\* within the chosen [start, end]; the date filter comes before it.
C10_AsClaimed ==
    (MfiComputed /\ ~empty(df_processed)) =>
        /\ Len(date_range) = 2
        /\ \A t \in 1..Len(series) :
              date_range[1] <= series[t]["Date"] /\ series[t]["Date"] <= date_range[2]

InRange(r) ==
    Len(date_range) = 2 => (date_range[1] <= r["Date"] /\ r["Date"] <= date_range[2])

\* C10 as amended: the steps run in the order select stock, compute,
\* date range: calculate_mfi evaluates its windows on all the loaded rows
\* of the selected stock, and the inclusive [start, end] filter is then
\* applied to its output, so the rows shown are the returned rows within
\* the range, each with the MFI of its window in the whole history.
C10_Amended ==
    /\ pc = "tab1_date" => (date_range = <<>> /\ df_filtered_date = EmptyDataFrame)
    /\ (pc \in {"tab2", "done", "crashed"} /\ ~empty(df_processed)) =>
          /\ series = RowsAt(df_full.rows, 1,
                             {i \in 1..Len(df_full.rows) :
                                 "Stock Code" \in df_full.columns =>
                                     df_full.rows[i]["Stock Code"] = selected_stock})
          /\ df_filtered_date.rows =
                RowsAt(df_processed.rows, 1,
                       {k \in 1..Len(df_processed.rows) : InRange(df_processed.rows[k])})
          /\ \A k \in 1..Len(df_filtered_date.rows) :
                \E t \in FullWindows :
                   /\ InputPart(df_filtered_date.rows[k]) = series[t]
                   /\ df_filtered_date.rows[k]["MFI"] =
                         Float(100 * positiveSum3(t), positiveSum3(t) + negativeSum3(t))

C10_Witness ==
    /\ pc = "done"
    /\ Len(date_range) = 2
    /\ Len(df_filtered_date.rows) >= 1
    /\ Len(df_filtered_date.rows) < Len(df_processed.rows)
    /\ df_filtered_date.rows[Len(df_filtered_date.rows)]["Date"] = date_range[2]
    /\ \E t \in 1..Len(series) : series[t]["Date"] < date_range[1]

====
